---- MODULE Spec2Model ----
(***************************************************************************)
(* Model of the Omega Messaging Stylus contract                            *)
(* (src/contracts/messaging/src/lib.rs): a message registry with           *)
(* sequential ids and an L2-to-L1 bridge call to the ArbSys precompile.    *)
(*                                                                         *)
(* An invocation is a frame on a call stack.  Each frame owns a storage    *)
(* cache (reads and writes of the StorageMap / StorageU256 accessors go    *)
(* through it), which is written back to the persistent store by           *)
(* StorageCache::flush() and by the entrypoint when the invocation         *)
(* returns.  An invocation that returns Err reverts: the persistent store  *)
(* and the event log are put back as they were when it began.  While the   *)
(* ArbSys call of bridge_message is running, the callee may call back      *)
(* into the contract, which pushes a new frame.                            *)
(*                                                                         *)
(* The Omega Compute contract (src/contracts/compute-stylus/src/lib.rs),   *)
(* a call counter beside an iterated keccak256, is modelled next to it     *)
(* with variables of its own and the specification SpecCompute.            *)
(***************************************************************************)
EXTENDS Integers, Sequences, FiniteSets, TLC

\* ------------------------------------------------------------------ bounds
\* MaxLog bounds the events in the log plus the invocations in flight that can
\* still emit one; MaxDepth bounds the call stack.
MaxLog == 3
MaxDepth == 2

\* MaxCalls bounds the compute_hash calls of the compute contract.  MaxRounds
\* stands for u64::MAX, the largest round count saturating_to::<u64>() lets
\* through: iterations above it are drawn too.
MaxCalls == 3
MaxRounds == 2

\* ------------------------------------------------------- program constants
ARBSYS_ADDR == 100
ZeroAddr == 0
HashLen == 32

\* ------------------------------------------------------------------ inputs
Users == {1, 2}
Tickets == {257, 258}
RevertData == {<<>>, <<7>>}
Keys == 0..MaxLog
IdArgs == 0..MaxLog

\* Contents a caller submits, as code points: "", "a", and "\u{e9}a".
Strings == {<<>>, <<97>>, <<233, 97>>}

\* ------------------------------------------------------------- conversions
\* UTF-8 encoding of one code point below 2048.
Utf8(c) == IF c < 128 THEN <<c>> ELSE <<192 + (c \div 64), 128 + (c % 64)>>

\* String::as_bytes: the UTF-8 bytes of a string of code points.
RECURSIVE as_bytes(_)
as_bytes(s) == IF s = <<>> THEN <<>> ELSE Utf8(Head(s)) \o as_bytes(Tail(s))

\* StorageString::set_str stores the bytes of the string.
set_str(s) == as_bytes(s)

\* StorageString::get_string decodes the stored bytes with from_utf8_lossy:
\* an ill-formed byte becomes U+FFFD.
RECURSIVE get_string(_)
get_string(b) ==
    IF b = <<>> THEN <<>>
    ELSE IF b[1] < 128 THEN <<b[1]>> \o get_string(Tail(b))
    ELSE IF b[1] >= 194 /\ b[1] <= 223 /\ Len(b) >= 2 /\ b[2] >= 128 /\ b[2] <= 191
         THEN <<(b[1] - 192) * 64 + (b[2] - 128)>> \o get_string(Tail(Tail(b)))
    ELSE <<65533>> \o get_string(Tail(b))

\* U256::to_be_bytes, most significant byte first, n bytes wide.
RECURSIVE BeBytes(_, _)
BeBytes(t, n) == IF n = 0 THEN <<>> ELSE Append(BeBytes(t \div 256, n - 1), t % 256)

to_be_bytes(t) == BeBytes(t, HashLen)

\* The number a big-endian byte string of small magnitude stands for.
RECURSIVE FromBeBytes(_)
FromBeBytes(b) ==
    IF b = <<>> THEN 0 ELSE FromBeBytes(SubSeq(b, 1, Len(b) - 1)) * 256 + b[Len(b)]

\* Decimal digits of a natural number, as ASCII.
RECURSIVE Dec(_)
Dec(n) == IF n < 10 THEN <<48 + n>> ELSE Append(Dec(n \div 10), 48 + (n % 10))

\* Debug rendering of a byte vector: "[1, 2]".
RECURSIVE DecList(_)
DecList(d) ==
    IF d = <<>> THEN <<>>
    ELSE IF Len(d) = 1 THEN Dec(d[1])
    ELSE Dec(d[1]) \o <<44, 32>> \o DecList(Tail(d))

\* format!("{:?}", err).into_bytes() for the call error of the relay:
\* "Revert([..])" or "AbiDecodingFailed(..)".
DebugFmt(rr) ==
    IF rr.st = "Revert"
    THEN <<82, 101, 118, 101, 114, 116, 40, 91>> \o DecList(rr.data) \o <<93, 41>>
    ELSE <<65, 98, 105>>

\* ------------------------------------------------------------------- state
VARIABLES
    storage,    \* persistent store: message_count, messages, senders
    logs,       \* events emitted by evm::log, in order
    stack,      \* invocations in flight, outermost first
    sent,       \* successful send_message calls: [id, sender, content]
    failed,     \* ids for which a bridge_message failed at the relay (history)
    call_count, \* persistent store of the compute contract: call_count
    clogs,      \* events emitted by the compute contract, in order
    call,       \* the invocation of the compute contract in flight, if any
    made        \* number of compute_hash calls that have returned (history)

\* The messaging contract's variables and the compute contract's.
mvars == <<storage, logs, stack, sent, failed>>
cvars == <<call_count, clogs, call, made>>
vars == <<storage, logs, stack, sent, failed, call_count, clogs, call, made>>

EmptyStore ==
    [message_count |-> 0,
     messages |-> [k \in Keys |-> <<>>],
     senders |-> [k \in Keys |-> ZeroAddr]]

\* ------------------------------------------------------------ storage cache
CntSlot == <<"cnt", 0>>
MsgSlot(id) == <<"msg", id>>
SndSlot(id) == <<"snd", id>>

\* reads lists the slots the invocation has read, in order.
EmptyCache == [known |-> {}, dirty |-> {}, val |-> EmptyStore, reads |-> <<>>]

\* self.message_count.get()
GetCount(c, st) ==
    IF CntSlot \in c.known THEN c.val.message_count ELSE st.message_count

\* self.messages.getter(id): the stored bytes
GetMsg(c, st, id) ==
    IF MsgSlot(id) \in c.known THEN c.val.messages[id] ELSE st.messages[id]

\* self.senders.getter(id).get()
GetSnd(c, st, id) ==
    IF SndSlot(id) \in c.known THEN c.val.senders[id] ELSE st.senders[id]

\* A read leaves the value in the cache.
LoadCount(c, st) ==
    [c EXCEPT !.known = @ \cup {CntSlot}, !.val.message_count = GetCount(c, st),
              !.reads = Append(@, CntSlot)]

LoadMsg(c, st, id) ==
    [c EXCEPT !.known = @ \cup {MsgSlot(id)}, !.val.messages[id] = GetMsg(c, st, id),
              !.reads = Append(@, MsgSlot(id))]

LoadSnd(c, st, id) ==
    [c EXCEPT !.known = @ \cup {SndSlot(id)}, !.val.senders[id] = GetSnd(c, st, id),
              !.reads = Append(@, SndSlot(id))]

\* A write stays in the cache until the next flush.
SetCount(c, v) ==
    [c EXCEPT !.known = @ \cup {CntSlot}, !.dirty = @ \cup {CntSlot},
              !.val.message_count = v]

SetMsg(c, id, b) ==
    [c EXCEPT !.known = @ \cup {MsgSlot(id)}, !.dirty = @ \cup {MsgSlot(id)},
              !.val.messages[id] = b]

SetSnd(c, id, a) ==
    [c EXCEPT !.known = @ \cup {SndSlot(id)}, !.dirty = @ \cup {SndSlot(id)},
              !.val.senders[id] = a]

\* Variant: a flush that leaves the pending sender writes behind.
FlushStoreNoSenders(c, st) ==
    [message_count |-> IF CntSlot \in c.dirty THEN c.val.message_count
                       ELSE st.message_count,
     messages |-> [k \in Keys |-> IF MsgSlot(k) \in c.dirty THEN c.val.messages[k]
                                  ELSE st.messages[k]],
     senders |-> st.senders]

\* Variant: a flush that writes back every slot the cache holds, read or
\* written.
FlushStoreAllKnown(c, st) ==
    [message_count |-> IF CntSlot \in c.known THEN c.val.message_count
                       ELSE st.message_count,
     messages |-> [k \in Keys |-> IF MsgSlot(k) \in c.known THEN c.val.messages[k]
                                  ELSE st.messages[k]],
     senders |-> [k \in Keys |-> IF SndSlot(k) \in c.known THEN c.val.senders[k]
                                 ELSE st.senders[k]]]

\* StorageCache::flush(): every pending write reaches the persistent store.
FlushStore(c, st) ==
    [message_count |-> IF CntSlot \in c.dirty THEN c.val.message_count
                       ELSE st.message_count,
     messages |-> [k \in Keys |-> IF MsgSlot(k) \in c.dirty THEN c.val.messages[k]
                                  ELSE st.messages[k]],
     senders |-> [k \in Keys |-> IF SndSlot(k) \in c.dirty THEN c.val.senders[k]
                                 ELSE st.senders[k]]]

\* The cache keeps its values after a flush, none of them pending.
FlushCache(c) == [c EXCEPT !.dirty = {}]

\* ------------------------------------------------------- events and results
MessageSent(id, sender, content) ==
    [kind |-> "MessageSent", id |-> id, sender |-> sender, content |-> content,
     bridgeTxHash |-> <<>>]

MessageBridged(id, ticket) ==
    [kind |-> "MessageBridged", id |-> id, sender |-> ZeroAddr, content |-> <<>>,
     bridgeTxHash |-> to_be_bytes(ticket)]

NoRes == [ok |-> FALSE, kind |-> "none", num |-> 0, bytes |-> <<>>]
OkU256(n) == [ok |-> TRUE, kind |-> "U256", num |-> n, bytes |-> <<>>]
OkString(s) == [ok |-> TRUE, kind |-> "String", num |-> 0, bytes |-> s]
OkAddress(a) == [ok |-> TRUE, kind |-> "Address", num |-> a, bytes |-> <<>>]
OkUnit == [ok |-> TRUE, kind |-> "Unit", num |-> 0, bytes |-> <<>>]
EmptyMessage == [ok |-> FALSE, kind |-> "EmptyMessage", num |-> 0, bytes |-> <<>>]
MessageNotFound(id) ==
    [ok |-> FALSE, kind |-> "MessageNotFound", num |-> id, bytes |-> <<>>]
BridgeCallFailed(reason) ==
    [ok |-> FALSE, kind |-> "BridgeCallFailed", num |-> 0, bytes |-> reason]

\* Outcome of IArbSys::send_tx_to_l_1 as the contract sees it.
NoRres == [st |-> "none", ticket |-> 0, data |-> <<>>]
RelayOk(t) == [st |-> "Ok", ticket |-> t, data |-> <<>>]
RelayRevert(d) == [st |-> "Revert", ticket |-> 0, data |-> d]
RelayAbiDecodingFailed == [st |-> "AbiDecodingFailed", ticket |-> 0, data |-> <<>>]

\* ------------------------------------------------------------------ frames
Snapshot == [storage |-> storage, logs |-> logs, sent |-> sent]
NoSnap == [storage |-> EmptyStore, logs |-> <<>>, sent |-> <<>>]

NewFrame(op, pc, sender, id, content) ==
    [op |-> op, pc |-> pc, sender |-> sender, id |-> id, content |-> content,
     data |-> <<>>, cache |-> EmptyCache, snap |-> Snapshot, rsnap |-> NoSnap,
     rres |-> NoRres, res |-> NoRes, emits |-> <<>>, issued |-> <<>>]

Depth == Len(stack)
Top == stack[Depth]
SetTop(f) == [stack EXCEPT ![Depth] = f]
At(pc) == Depth > 0 /\ Top.pc = pc

\* A call can enter the contract as a top-level invocation of a user, or from
\* the relay while the ArbSys call of a bridge_message is running.  (A build
\* of the SDK that refuses re-entrant calls reverts them at the entrypoint,
\* which changes nothing: such a call is a stuttering step here.)
CanEnter(sender) ==
    \/ Depth = 0 /\ sender \in Users
    \/ Depth > 0 /\ Depth < MaxDepth /\ Top.pc = "relay" /\ sender = ARBSYS_ADDR

\* Every invocation below the top of the stack is a bridge_message waiting for
\* the relay: it can still emit one event, and so can the invocation entering.
Room == Len(logs) + Depth < MaxLog

Callers == Users \cup {ARBSYS_ADDR}

\* The read operations never look at msg::sender(): one user stands for all.
Readers == {1, ARBSYS_ADDR}

\* -------------------------------------------- compute contract: its frames
ComputeCompleted(iterations, finalHash) ==
    [kind |-> "ComputeCompleted", iterations |-> iterations, finalHash |-> finalHash]

NoCres == [ok |-> FALSE, kind |-> "none", val |-> 0]
OkB256(h) == [ok |-> TRUE, kind |-> "B256", val |-> h]
OkCount(n) == [ok |-> TRUE, kind |-> "U256", val |-> n]

\* dirty and val are the invocation's storage cache for call_count.
NoCall ==
    [op |-> "none", pc |-> "none", iterations |-> 0, n |-> 0, i |-> 0, hash |-> 0,
     count |-> 0, dirty |-> FALSE, val |-> 0, res |-> NoCres]

Init ==
    /\ storage = EmptyStore
    /\ logs = <<>>
    /\ stack = <<>>
    /\ sent = <<>>
    /\ failed = {}
    /\ call_count = 0
    /\ clogs = <<>>
    /\ call = NoCall
    /\ made = 0

\* ------------------------------------------------------------ send_message
\* Variant: the emptiness test is left out.
NeverEmpty(content) == FALSE

\* content.is_empty()
IsEmpty(content) == content = <<>>

\* Variant: the counter advances by two.
NextCountByTwo(id) == id + 2

\* Variant: the counter is written back without the increment.
NextCountStuck(id) == id

\* id + U256::from(1); 2^256 submissions are out of reach, so it never wraps.
NextCount(id) == id + 1

\* Variant: the content is written under key 0 whatever the id.
StoreContentAtZero(c, id, content) == SetMsg(c, 0, set_str(content))

\* self.messages.setter(id).set_str(&content)
StoreContent(c, id, content) == SetMsg(c, id, set_str(content))

\* Variant: the sender is never written.
StoreSenderSkipped(c, id, sender) == c

\* Variant: the sender is written under key 0, whatever the id.
StoreSenderAtZero(c, id, sender) == SetSnd(c, 0, sender)

\* self.senders.setter(id).set(msg::sender())
StoreSender(c, id, sender) == SetSnd(c, id, sender)

CallSendMessage(sender, content) ==
    /\ CanEnter(sender)
    /\ content = <<>> \/ Room
    /\ stack' = Append(stack, NewFrame("send_message", "sm_check", sender, 0, content))
    /\ UNCHANGED <<storage, logs, sent, failed>>
    /\ UNCHANGED cvars

SendCheck ==
    /\ At("sm_check")
    /\ stack' = SetTop(IF IsEmpty(Top.content)
                       THEN [Top EXCEPT !.pc = "done", !.res = EmptyMessage]
                       ELSE [Top EXCEPT !.pc = "sm_read"])
    /\ UNCHANGED <<storage, logs, sent, failed>>
    /\ UNCHANGED cvars

SendRead ==
    /\ At("sm_read")
    /\ stack' = SetTop([Top EXCEPT !.pc = "sm_inc",
                                   !.id = GetCount(Top.cache, storage),
                                   !.cache = LoadCount(Top.cache, storage)])
    /\ UNCHANGED <<storage, logs, sent, failed>>
    /\ UNCHANGED cvars

SendInc ==
    /\ At("sm_inc")
    /\ stack' = SetTop([Top EXCEPT !.pc = "sm_msg",
                                   !.cache = SetCount(Top.cache, NextCount(Top.id))])
    /\ UNCHANGED <<storage, logs, sent, failed>>
    /\ UNCHANGED cvars

SendStoreContent ==
    /\ At("sm_msg")
    /\ stack' = SetTop([Top EXCEPT !.pc = "sm_snd",
                                   !.cache = StoreContent(Top.cache, Top.id, Top.content)])
    /\ UNCHANGED <<storage, logs, sent, failed>>
    /\ UNCHANGED cvars

SendStoreSender ==
    /\ At("sm_snd")
    /\ stack' = SetTop([Top EXCEPT !.pc = "sm_log",
                                   !.cache = StoreSender(Top.cache, Top.id, Top.sender)])
    /\ UNCHANGED <<storage, logs, sent, failed>>
    /\ UNCHANGED cvars

\* Variant: the event names the counter after the increment.
SentEventNextId(f) == MessageSent(f.id + 1, f.sender, f.content)

\* evm::log(MessageSent { id, sender: msg::sender(), content })
SentEvent(f) == MessageSent(f.id, f.sender, f.content)

SendLog ==
    /\ At("sm_log")
    /\ logs' = Append(logs, SentEvent(Top))
    /\ sent' = Append(sent, [id |-> Top.id, sender |-> Top.sender,
                             content |-> Top.content])
    /\ stack' = SetTop([Top EXCEPT !.pc = "done", !.res = OkU256(Top.id),
                                   !.emits = Append(@, SentEvent(Top))])
    /\ UNCHANGED <<storage, failed>>
    /\ UNCHANGED cvars

\* ------------------------------------------- get_message, get_sender, count
\* Variant: the bound check is off by one.
MissingOffByOne(id, count) == id > count

\* id >= self.message_count.get()
Missing(id, count) == id >= count

CallGetMessage(sender, id) ==
    /\ CanEnter(sender)
    /\ stack' = Append(stack, NewFrame("get_message", "gm_check", sender, id, <<>>))
    /\ UNCHANGED <<storage, logs, sent, failed>>
    /\ UNCHANGED cvars

GetMessageCheck ==
    /\ At("gm_check")
    /\ stack' = SetTop(IF Missing(Top.id, GetCount(Top.cache, storage))
                       THEN [Top EXCEPT !.pc = "done", !.res = MessageNotFound(Top.id),
                                        !.cache = LoadCount(Top.cache, storage)]
                       ELSE [Top EXCEPT !.pc = "gm_read",
                                        !.cache = LoadCount(Top.cache, storage)])
    /\ UNCHANGED <<storage, logs, sent, failed>>
    /\ UNCHANGED cvars

GetMessageRead ==
    /\ At("gm_read")
    /\ stack' = SetTop([Top EXCEPT
            !.pc = "done",
            !.res = OkString(get_string(GetMsg(Top.cache, storage, Top.id))),
            !.cache = LoadMsg(Top.cache, storage, Top.id)])
    /\ UNCHANGED <<storage, logs, sent, failed>>
    /\ UNCHANGED cvars

CallGetSender(sender, id) ==
    /\ CanEnter(sender)
    /\ stack' = Append(stack, NewFrame("get_sender", "gs_check", sender, id, <<>>))
    /\ UNCHANGED <<storage, logs, sent, failed>>
    /\ UNCHANGED cvars

GetSenderCheck ==
    /\ At("gs_check")
    /\ stack' = SetTop(IF Missing(Top.id, GetCount(Top.cache, storage))
                       THEN [Top EXCEPT !.pc = "done", !.res = MessageNotFound(Top.id),
                                        !.cache = LoadCount(Top.cache, storage)]
                       ELSE [Top EXCEPT !.pc = "gs_read",
                                        !.cache = LoadCount(Top.cache, storage)])
    /\ UNCHANGED <<storage, logs, sent, failed>>
    /\ UNCHANGED cvars

GetSenderRead ==
    /\ At("gs_read")
    /\ stack' = SetTop([Top EXCEPT
            !.pc = "done",
            !.res = OkAddress(GetSnd(Top.cache, storage, Top.id)),
            !.cache = LoadSnd(Top.cache, storage, Top.id)])
    /\ UNCHANGED <<storage, logs, sent, failed>>
    /\ UNCHANGED cvars

CallMessageCount(sender) ==
    /\ CanEnter(sender)
    /\ stack' = Append(stack, NewFrame("message_count", "mc_read", sender, 0, <<>>))
    /\ UNCHANGED <<storage, logs, sent, failed>>
    /\ UNCHANGED cvars

MessageCountRead ==
    /\ At("mc_read")
    /\ stack' = SetTop([Top EXCEPT !.pc = "done",
                                   !.res = OkU256(GetCount(Top.cache, storage)),
                                   !.cache = LoadCount(Top.cache, storage)])
    /\ UNCHANGED <<storage, logs, sent, failed>>
    /\ UNCHANGED cvars

\* ---------------------------------------------------------- bridge_message
\* Variant: a message that was bridged before is refused.
BridgeMissingOnce(id, count) ==
    id >= count \/ \E i \in 1..Len(logs) : logs[i].kind = "MessageBridged" /\ logs[i].id = id

\* Variant: bridge_message has no existence check.
BridgeMissingNever(id, count) == FALSE

\* Variant: the existence check of bridge_message is off by one.
BridgeMissingOffByOne(id, count) == id > count

\* id >= self.message_count.get(), the existence check of bridge_message
BridgeMissing(id, count) == id >= count

\* content.as_bytes().to_vec().into()
Payload(content) == as_bytes(content)

\* Variant: the relay itself is named as the recipient.
RelayCallToSelf(f) ==
    [to |-> ARBSYS_ADDR, destination |-> ARBSYS_ADDR, data |-> f.data]

\* arbsys.send_tx_to_l_1(config, msg::sender(), data) on IArbSys::new(ARBSYS_ADDR)
RelayCall(f) ==
    [to |-> ARBSYS_ADDR, destination |-> f.sender, data |-> f.data]

\* The Ok arm of the match on the result of the relay call.
IsOk(rr) == rr.st = "Ok"

\* Variant: only the low byte of the ticket reaches the event.
BridgedEventLow(id, rr) == MessageBridged(id, rr.ticket % 256)

\* evm::log(MessageBridged { id, bridgeTxHash: ticket_id.to_be_bytes().into() })
BridgedEvent(id, rr) == MessageBridged(id, rr.ticket)

\* Variant: the error of the relay is swallowed.
FailedAsOk(rr) == OkUnit

\* Err(BridgeCallFailed { reason: format!("{:?}", err).into_bytes() })
FailedResult(rr) == BridgeCallFailed(DebugFmt(rr))

CallBridgeMessage(sender, id) ==
    /\ CanEnter(sender)
    /\ id >= storage.message_count \/ Room
    /\ stack' = Append(stack, NewFrame("bridge_message", "bm_check", sender, id, <<>>))
    /\ UNCHANGED <<storage, logs, sent, failed>>
    /\ UNCHANGED cvars

BridgeCheck ==
    /\ At("bm_check")
    /\ stack' = SetTop(IF BridgeMissing(Top.id, GetCount(Top.cache, storage))
                       THEN [Top EXCEPT !.pc = "done", !.res = MessageNotFound(Top.id),
                                        !.cache = LoadCount(Top.cache, storage)]
                       ELSE [Top EXCEPT !.pc = "bm_read",
                                        !.cache = LoadCount(Top.cache, storage)])
    /\ UNCHANGED <<storage, logs, sent, failed>>
    /\ UNCHANGED cvars

BridgeRead ==
    /\ At("bm_read")
    /\ stack' = SetTop([Top EXCEPT
            !.pc = "bm_flush",
            !.content = get_string(GetMsg(Top.cache, storage, Top.id)),
            !.cache = LoadMsg(Top.cache, storage, Top.id)])
    /\ UNCHANGED <<storage, logs, sent, failed>>
    /\ UNCHANGED cvars

BridgeFlush ==
    /\ At("bm_flush")
    /\ storage' = FlushStore(Top.cache, storage)
    /\ stack' = SetTop([Top EXCEPT !.pc = "bm_encode", !.cache = FlushCache(Top.cache)])
    /\ UNCHANGED <<logs, sent, failed>>
    /\ UNCHANGED cvars

BridgeEncode ==
    /\ At("bm_encode")
    /\ stack' = SetTop([Top EXCEPT !.pc = "bm_call", !.data = Payload(Top.content)])
    /\ UNCHANGED <<storage, logs, sent, failed>>
    /\ UNCHANGED cvars

BridgeCall ==
    /\ At("bm_call")
    /\ stack' = SetTop([Top EXCEPT !.pc = "relay", !.rsnap = Snapshot,
                                   !.issued = Append(@, RelayCall(Top))])
    /\ UNCHANGED <<storage, logs, sent, failed>>
    /\ UNCHANGED cvars

\* The relay returns a ticket.
RelayReturns(t) ==
    /\ At("relay")
    /\ stack' = SetTop([Top EXCEPT !.pc = "bm_match", !.rres = RelayOk(t),
                                   !.rsnap = NoSnap])
    /\ UNCHANGED <<storage, logs, sent, failed>>
    /\ UNCHANGED cvars

\* The relay reverts: whatever was done inside the call is undone.
RelayReverts(d) ==
    /\ At("relay")
    /\ storage' = Top.rsnap.storage
    /\ logs' = Top.rsnap.logs
    /\ sent' = Top.rsnap.sent
    /\ stack' = SetTop([Top EXCEPT !.pc = "bm_match", !.rres = RelayRevert(d),
                                   !.rsnap = NoSnap])
    /\ UNCHANGED failed
    /\ UNCHANGED cvars

\* The relay returns, but not a well-formed uint256.
RelayReturnsMalformed ==
    /\ At("relay")
    /\ stack' = SetTop([Top EXCEPT !.pc = "bm_match", !.rres = RelayAbiDecodingFailed,
                                   !.rsnap = NoSnap])
    /\ UNCHANGED <<storage, logs, sent, failed>>
    /\ UNCHANGED cvars

\* Variant: the existence of the message is probed again after the call.
BridgeOkRecheck ==
    /\ At("bm_match")
    /\ IsOk(Top.rres)
    /\ ~BridgeMissing(Top.id, GetCount(Top.cache, storage))
    /\ logs' = Append(logs, BridgedEvent(Top.id, Top.rres))
    /\ stack' = SetTop([Top EXCEPT !.pc = "done", !.res = OkUnit,
                                   !.cache = LoadCount(Top.cache, storage),
                                   !.emits = Append(@, BridgedEvent(Top.id, Top.rres))])
    /\ UNCHANGED <<storage, sent, failed>>
    /\ UNCHANGED cvars

BridgeOk ==
    /\ At("bm_match")
    /\ IsOk(Top.rres)
    /\ logs' = Append(logs, BridgedEvent(Top.id, Top.rres))
    /\ stack' = SetTop([Top EXCEPT !.pc = "done", !.res = OkUnit,
                                   !.emits = Append(@, BridgedEvent(Top.id, Top.rres))])
    /\ UNCHANGED <<storage, sent, failed>>
    /\ UNCHANGED cvars

\* Variant: a failed forward is tried once more before giving up.
BridgeErrRetry ==
    /\ At("bm_match")
    /\ ~IsOk(Top.rres)
    /\ stack' = SetTop(IF Len(Top.issued) < 2
                       THEN [Top EXCEPT !.pc = "relay", !.rsnap = Snapshot,
                                        !.rres = NoRres,
                                        !.issued = Append(@, RelayCall(Top))]
                       ELSE [Top EXCEPT !.pc = "done",
                                        !.res = FailedResult(Top.rres)])
    /\ failed' = failed \cup {Top.id}
    /\ UNCHANGED <<storage, logs, sent>>
    /\ UNCHANGED cvars

BridgeErr ==
    /\ At("bm_match")
    /\ ~IsOk(Top.rres)
    /\ stack' = SetTop([Top EXCEPT !.pc = "done", !.res = FailedResult(Top.rres)])
    /\ failed' = failed \cup {Top.id}
    /\ UNCHANGED <<storage, logs, sent>>
    /\ UNCHANGED cvars

\* ------------------------------------------------------------------ return
\* The entrypoint writes the cache back and hands the result to the caller;
\* an Err result reverts the invocation.
ReturnOk ==
    /\ At("done")
    /\ Top.res.ok
    /\ storage' = FlushStore(Top.cache, storage)
    /\ stack' = SubSeq(stack, 1, Depth - 1)
    /\ UNCHANGED <<logs, sent, failed>>
    /\ UNCHANGED cvars

\* Variant: an Err result is handed back without reverting the invocation.
ReturnErrKeeps ==
    /\ At("done")
    /\ ~Top.res.ok
    /\ storage' = FlushStore(Top.cache, storage)
    /\ stack' = SubSeq(stack, 1, Depth - 1)
    /\ UNCHANGED <<logs, sent, failed>>
    /\ UNCHANGED cvars

ReturnErr ==
    /\ At("done")
    /\ ~Top.res.ok
    /\ storage' = Top.snap.storage
    /\ logs' = Top.snap.logs
    /\ sent' = Top.snap.sent
    /\ stack' = SubSeq(stack, 1, Depth - 1)
    /\ UNCHANGED failed
    /\ UNCHANGED cvars

Next ==
    \/ \E a \in Callers, c \in Strings : CallSendMessage(a, c)
    \/ SendCheck
    \/ SendRead
    \/ SendInc
    \/ SendStoreContent
    \/ SendStoreSender
    \/ SendLog
    \/ \E a \in Readers, i \in IdArgs : CallGetMessage(a, i)
    \/ GetMessageCheck
    \/ GetMessageRead
    \/ \E a \in Readers, i \in IdArgs : CallGetSender(a, i)
    \/ GetSenderCheck
    \/ GetSenderRead
    \/ \E a \in Readers : CallMessageCount(a)
    \/ MessageCountRead
    \/ \E a \in Callers, i \in IdArgs : CallBridgeMessage(a, i)
    \/ BridgeCheck
    \/ BridgeRead
    \/ BridgeFlush
    \/ BridgeEncode
    \/ BridgeCall
    \/ \E t \in Tickets : RelayReturns(t)
    \/ \E d \in RevertData : RelayReverts(d)
    \/ RelayReturnsMalformed
    \/ BridgeOk
    \/ BridgeErr
    \/ ReturnOk
    \/ ReturnErr

Spec == Init /\ [][Next]_vars

\* ======================================================== compute contract
\* (src/contracts/compute-stylus/src/lib.rs)
Iterations == 0..(MaxRounds + 1)

\* A hash is written as the number of keccak256 applications that produced it
\* from the literal b"stylus-compute-bench" (keccak256 as a one-to-one map).
Preimage == 0
keccak(h) == h + 1

\* iterations.saturating_to::<u64>()
saturating_to(x) == IF x > MaxRounds THEN MaxRounds ELSE x

\* Variant: the counter is left as it was.
NextCallCountStuck(count) == count

\* count + U256::from(1)
NextCallCount(count) == count + 1

InCall(pc) == call.pc = pc

CallComputeHash(iterations) ==
    /\ call = NoCall
    /\ made < MaxCalls
    /\ call' = [NoCall EXCEPT !.op = "compute_hash", !.pc = "ch_seed",
                              !.iterations = iterations]
    /\ UNCHANGED <<call_count, clogs, made>>
    /\ UNCHANGED mvars

ComputeSeed ==
    /\ InCall("ch_seed")
    /\ call' = [call EXCEPT !.pc = "ch_n", !.hash = keccak(Preimage)]
    /\ UNCHANGED <<call_count, clogs, made>>
    /\ UNCHANGED mvars

ComputeSaturate ==
    /\ InCall("ch_n")
    /\ call' = [call EXCEPT !.pc = "ch_loop", !.n = saturating_to(call.iterations),
                            !.i = 0]
    /\ UNCHANGED <<call_count, clogs, made>>
    /\ UNCHANGED mvars

ComputeRound ==
    /\ InCall("ch_loop")
    /\ call.i < call.n
    /\ call' = [call EXCEPT !.hash = keccak(call.hash), !.i = @ + 1]
    /\ UNCHANGED <<call_count, clogs, made>>
    /\ UNCHANGED mvars

ComputeLoopEnd ==
    /\ InCall("ch_loop")
    /\ call.i >= call.n
    /\ call' = [call EXCEPT !.pc = "ch_get"]
    /\ UNCHANGED <<call_count, clogs, made>>
    /\ UNCHANGED mvars

ComputeGetCount ==
    /\ InCall("ch_get")
    /\ call' = [call EXCEPT !.pc = "ch_set", !.count = call_count]
    /\ UNCHANGED <<call_count, clogs, made>>
    /\ UNCHANGED mvars

ComputeSetCount ==
    /\ InCall("ch_set")
    /\ call' = [call EXCEPT !.pc = "ch_log", !.dirty = TRUE,
                            !.val = NextCallCount(call.count)]
    /\ UNCHANGED <<call_count, clogs, made>>
    /\ UNCHANGED mvars

ComputeLog ==
    /\ InCall("ch_log")
    /\ clogs' = Append(clogs, ComputeCompleted(call.iterations, call.hash))
    /\ call' = [call EXCEPT !.pc = "done", !.res = OkB256(call.hash)]
    /\ UNCHANGED <<call_count, made>>
    /\ UNCHANGED mvars

CallCallCount ==
    /\ call = NoCall
    /\ call' = [NoCall EXCEPT !.op = "call_count", !.pc = "cc_get"]
    /\ UNCHANGED <<call_count, clogs, made>>
    /\ UNCHANGED mvars

CallCountGet ==
    /\ InCall("cc_get")
    /\ call' = [call EXCEPT !.pc = "done", !.res = OkCount(call_count)]
    /\ UNCHANGED <<call_count, clogs, made>>
    /\ UNCHANGED mvars

\* The entrypoint writes the cached counter back when the invocation returns.
ComputeReturn ==
    /\ InCall("done")
    /\ call_count' = IF call.dirty THEN call.val ELSE call_count
    /\ made' = IF call.op = "compute_hash" THEN made + 1 ELSE made
    /\ call' = NoCall
    /\ UNCHANGED clogs
    /\ UNCHANGED mvars

\* The messaging contract as one submission by user 1 has left it.
StoreWithOne ==
    [message_count |-> 1,
     messages |-> [k \in Keys |-> IF k = 0 THEN set_str(<<97>>) ELSE <<>>],
     senders |-> [k \in Keys |-> IF k = 0 THEN 1 ELSE ZeroAddr]]

\* The compute contract is deployed beside a messaging contract that holds
\* no message or one.
ComputeInit ==
    /\ storage \in {EmptyStore, StoreWithOne}
    /\ logs = IF storage = EmptyStore THEN <<>> ELSE <<MessageSent(0, 1, <<97>>)>>
    /\ sent = IF storage = EmptyStore THEN <<>>
              ELSE <<[id |-> 0, sender |-> 1, content |-> <<97>>]>>
    /\ stack = <<>>
    /\ failed = {}
    /\ call_count = 0
    /\ clogs = <<>>
    /\ call = NoCall
    /\ made = 0

ComputeNext ==
    \/ \E n \in Iterations : CallComputeHash(n)
    \/ ComputeSeed
    \/ ComputeSaturate
    \/ ComputeRound
    \/ ComputeLoopEnd
    \/ ComputeGetCount
    \/ ComputeSetCount
    \/ ComputeLog
    \/ CallCallCount
    \/ CallCountGet
    \/ ComputeReturn

SpecCompute == ComputeInit /\ [][ComputeNext]_vars

\* ================================================================== claims
\* A new invocation can enter: between top-level invocations, or while the
\* relay call of the innermost invocation is running.
Observable == Depth = 0 \/ Top.pc = "relay"

\* The invocation on top of the stack has produced its result.
Done(op) == Depth > 0 /\ Top.op = op /\ Top.pc = "done"

\* message_count() as it stood when the invocation f began.
CountAtCall(f) == f.snap.storage.message_count

IsBridged(e) == e.kind = "MessageBridged"

\* C1: the k-th successful send_message (k = 0, 1, ...) returned the id k, so
\* ids are neither repeated nor skipped, and message_count() after N
\* successful submissions is N, both in the store a new invocation sees and in
\* the value message_count() returns.  (A submission made inside a call that
\* reverted is undone with it and is not counted.)
C1_SequentialIds ==
    /\ \A k \in 1..Len(sent) : sent[k].id = k - 1
    /\ Done("send_message") /\ Top.res.ok =>
          /\ Top.res.kind = "U256"
          /\ Top.res.num = Len(sent) - 1
          /\ Top.res.num = CountAtCall(Top)
    /\ Observable => storage.message_count = Len(sent)
    /\ Done("message_count") => Top.res = OkU256(Len(sent))

C1_Witness ==
    /\ Done("message_count")
    /\ Top.res.num = 2
    /\ sent[2].id = 1

\* C2: once send_message(c) by account a has returned id, get_message(id)
\* returns c and get_sender(id) returns a, whatever was called since: the
\* store a new invocation sees holds c and a under id, and every get_message
\* and get_sender of that id returns them.
C2_RoundTrip ==
    /\ Observable =>
          \A k \in 1..Len(sent) :
              /\ get_string(storage.messages[k - 1]) = sent[k].content
              /\ storage.senders[k - 1] = sent[k].sender
    /\ Done("get_message") /\ Top.id < Len(sent) =>
          Top.res = OkString(sent[Top.id + 1].content)
    /\ Done("get_sender") /\ Top.id < Len(sent) =>
          Top.res = OkAddress(sent[Top.id + 1].sender)

C2_Witness ==
    /\ Depth = 2
    /\ Done("get_message")
    /\ Top.id = 0
    /\ Top.res.bytes = <<233, 97>>
    /\ Len(sent) = 2
    /\ sent[2].sender = ARBSYS_ADDR

\* C3: get_message(id) and get_sender(id) fail with NotFound exactly when
\* id >= message_count() at call time, the error carries the requested id, and
\* below message_count() they succeed.
C3_NotFoundIff ==
    \A op \in {"get_message", "get_sender"} :
        Done(op) =>
            /\ (Top.res.kind = "MessageNotFound") <=> (Top.id >= CountAtCall(Top))
            /\ Top.res.kind = "MessageNotFound" => ~Top.res.ok /\ Top.res.num = Top.id
            /\ Top.id < CountAtCall(Top) => Top.res.ok

C3_Witness ==
    /\ Done("get_sender")
    /\ Top.res.kind = "MessageNotFound"
    /\ Top.res.num = 1
    /\ CountAtCall(Top) = 1

\* C4: send_message with empty content fails with EmptyContent before any
\* state mutation: nothing is written to the cache or the store, the count is
\* as before, and no event is emitted.
C4_EmptyRejected ==
    Done("send_message") /\ Top.content = <<>> =>
        /\ Top.res = EmptyMessage
        /\ Top.cache.dirty = {}
        /\ Top.emits = <<>>
        /\ storage = Top.snap.storage
        /\ logs = Top.snap.logs
        /\ sent = Top.snap.sent

C4_Witness ==
    /\ Done("send_message")
    /\ Top.content = <<>>
    /\ Top.res.kind = "EmptyMessage"
    /\ storage.message_count = 1

\* C5: bridge_message(id) with id >= message_count() fails with NotFound(id),
\* issues no call to the relay and emits no event; a relay call is only issued
\* by a bridge_message whose id was below message_count() when it was checked.
C5_NoCallWhenMissing ==
    \A i \in 1..Depth :
        stack[i].op = "bridge_message" =>
            /\ stack[i].pc = "done" /\ stack[i].id >= CountAtCall(stack[i]) =>
                  /\ stack[i].res = MessageNotFound(stack[i].id)
                  /\ stack[i].issued = <<>>
                  /\ stack[i].emits = <<>>
            /\ stack[i].issued # <<>> => stack[i].id < CountAtCall(stack[i])
            /\ stack[i].pc \in {"relay", "bm_match"} => stack[i].issued # <<>>

C5_Witness ==
    /\ Done("bridge_message")
    /\ Top.res.kind = "MessageNotFound"
    /\ Top.res.num = 1
    /\ CountAtCall(Top) = 1
    /\ Top.issued = <<>>

\* Invariants I1-I3 of the store st, given the submissions snt made so far.
StoreInv(st, snt) ==
    /\ st.message_count = Len(snt)
    /\ \A k \in Keys :
          IF k < st.message_count
          THEN st.messages[k] # <<>> /\ st.senders[k] # ZeroAddr
          ELSE st.messages[k] = <<>> /\ st.senders[k] = ZeroAddr

\* Every value the cache c holds, other than its own pending writes, is the
\* value of the store st.
CacheAgrees(c, st) ==
    /\ CntSlot \in c.known \ c.dirty => c.val.message_count = st.message_count
    /\ \A k \in Keys :
          /\ MsgSlot(k) \in c.known \ c.dirty => c.val.messages[k] = st.messages[k]
          /\ SndSlot(k) \in c.known \ c.dirty => c.val.senders[k] = st.senders[k]

\* C6: when bridge_message hands control to the relay, none of its storage
\* writes is pending and the committed store satisfies I1-I3; an invocation
\* that re-enters during the relay call starts from an empty cache, so what it
\* reads is the committed store, never a stale or partly applied one.
C6_CommitBarrier ==
    /\ \A i \in 1..Depth :
          stack[i].pc = "relay" =>
              /\ stack[i].cache.dirty = {}
              /\ StoreInv(stack[i].rsnap.storage, stack[i].rsnap.sent)
              /\ CacheAgrees(stack[i].cache, stack[i].rsnap.storage)
    /\ Depth > 0 /\ Top.pc = "relay" => StoreInv(storage, sent)
    /\ \A i \in 2..Depth :
          /\ StoreInv(stack[i].snap.storage, stack[i].snap.sent)
          /\ i = Depth /\ stack[i].issued = <<>> => CacheAgrees(stack[i].cache, storage)

C6_Witness ==
    /\ Depth = 2
    /\ stack[1].pc = "relay"
    /\ Done("send_message")
    /\ Top.res.ok
    /\ Top.cache.dirty # {}
    /\ stack[1].rsnap.storage.message_count = 1

RelayFailed(f) == f.rres.st \in {"Revert", "AbiDecodingFailed"}

C7_Failure ==
    /\ \A i \in 1..Depth :
          stack[i].op = "bridge_message" /\ stack[i].pc = "done" /\ RelayFailed(stack[i]) =>
              /\ ~stack[i].res.ok
              /\ stack[i].res.kind = "BridgeCallFailed"
              /\ stack[i].res.bytes = DebugFmt(stack[i].rres)
              /\ \A d \in RevertData :
                    stack[i].res.bytes = DebugFmt(RelayRevert(d)) =>
                        stack[i].rres = RelayRevert(d)
              /\ stack[i].emits = <<>>
    /\ Done("bridge_message") /\ Top.id \in failed /\ Top.id < CountAtCall(Top) =>
          /\ Top.res.kind # "MessageNotFound"
          /\ Top.res.ok <=> Top.rres.st = "Ok"

C7_Undone ==
    Done("bridge_message") /\ RelayFailed(Top) =>
        /\ storage' = Top.snap.storage
        /\ logs' = Top.snap.logs
        /\ sent' = Top.snap.sent
        /\ stack' = SubSeq(stack, 1, Depth - 1)

\* C7: if the relay reports an error for a bridge_message(id) with
\* id < message_count(), the invocation fails with RelayCallFailed carrying the
\* rendering of the relay's error, no MessageBridged event is emitted, the
\* store and the log are as they were before the invocation, and a later
\* bridge_message(id) is accepted and succeeds whenever the relay succeeds.
C7_RelayFailure == []C7_Failure /\ [][C7_Undone]_vars

C7_Witness ==
    /\ Done("bridge_message")
    /\ Top.id = 0
    /\ Top.id \in failed
    /\ Top.res.ok

\* C8: every successful bridge_message(id) emits exactly one MessageBridged
\* event, carrying id and the ticket the relay returned for that call, as the
\* last event of the log; and an invocation emits a MessageBridged event only
\* if it is a bridge_message whose relay call succeeded.
C8_BridgedEvent ==
    \A i \in 1..Depth :
        /\ stack[i].op = "bridge_message" /\ stack[i].pc = "done" /\ stack[i].res.ok =>
              /\ Len(stack[i].emits) = 1
              /\ stack[i].emits[1].kind = "MessageBridged"
              /\ stack[i].emits[1].id = stack[i].id
              /\ Len(stack[i].emits[1].bridgeTxHash) = HashLen
              /\ FromBeBytes(stack[i].emits[1].bridgeTxHash) = stack[i].rres.ticket
              /\ i = Depth => logs # <<>> /\ logs[Len(logs)] = stack[i].emits[1]
        /\ (\E j \in 1..Len(stack[i].emits) : IsBridged(stack[i].emits[j])) =>
              /\ stack[i].op = "bridge_message"
              /\ stack[i].rres.st = "Ok"
              /\ stack[i].res.ok

C8_Witness ==
    /\ Done("bridge_message")
    /\ Top.res.ok
    /\ Top.rres.ticket = 258
    /\ logs[Len(logs)].bridgeTxHash[31] = 1
    /\ logs[Len(logs)].bridgeTxHash[32] = 2

\* C9: every relay call issued by bridge_message(id) invoked by account a
\* goes to the fixed relay address, names a as the recipient, and carries as
\* payload the bytes of the content that the send_message assigned id stored.
C9_RelayArguments ==
    \A i \in 1..Depth :
        stack[i].issued # <<>> =>
            /\ stack[i].op = "bridge_message"
            /\ stack[i].id < Len(sent)
            /\ \A j \in 1..Len(stack[i].issued) :
                  /\ stack[i].issued[j].to = 100
                  /\ stack[i].issued[j].destination = stack[i].sender
                  /\ stack[i].issued[j].data = as_bytes(sent[stack[i].id + 1].content)

C9_Witness ==
    /\ Depth > 0
    /\ Top.pc = "relay"
    /\ Top.sender = 2
    /\ Top.id = 1
    /\ Top.issued = <<[to |-> 100, destination |-> 2, data |-> <<195, 169, 97>>]>>

\* C10: bridging is not guarded by earlier bridging: for every id below
\* message_count(), however many bridge_message(id) succeeded or failed
\* before, a further bridge_message(id) passes the existence check, issues a
\* relay call, and succeeds exactly when that relay call succeeds.
C10_Rebridge ==
    \A i \in 1..Depth :
        stack[i].op = "bridge_message" /\ stack[i].id < CountAtCall(stack[i]) =>
            /\ stack[i].res.kind # "MessageNotFound"
            /\ stack[i].pc \notin {"bm_check", "bm_read", "bm_flush", "bm_encode", "bm_call"}
                  => Len(stack[i].issued) = 1
            /\ stack[i].pc = "done" => (stack[i].res.ok <=> stack[i].rres.st = "Ok")

C10_Witness ==
    /\ Done("bridge_message")
    /\ Top.res.ok
    /\ Top.id \in failed
    /\ \E j \in 1..Len(Top.snap.logs) :
          IsBridged(Top.snap.logs[j]) /\ Top.snap.logs[j].id = Top.id

\* C11: invariants I2 and I3 in every store an invocation can observe
\* (between top-level invocations and when control is handed to the relay):
\* below message_count every id has a non-empty content and a sender, and
\* from message_count on no key holds an entry.
C11_StoreInvariants ==
    Observable =>
        \A k \in Keys :
            /\ k < storage.message_count =>
                  /\ get_string(storage.messages[k]) # <<>>
                  /\ storage.senders[k] \in Callers
            /\ k >= storage.message_count =>
                  /\ storage.messages[k] = <<>>
                  /\ storage.senders[k] = ZeroAddr

C11_Witness ==
    /\ Depth = 1
    /\ Top.pc = "relay"
    /\ Top.rsnap.storage.message_count = 1
    /\ storage.message_count = 2
    /\ storage.senders[1] = ARBSYS_ADDR
    /\ storage.messages[2] = <<>>

\* An invocation on top of the stack that has failed.
Failing == Depth > 0 /\ Top.pc = "done" /\ ~Top.res.ok

C12_NothingOfItsOwn ==
    Failing =>
        /\ Top.res.kind \in {"EmptyMessage", "MessageNotFound", "BridgeCallFailed"}
        /\ Top.cache.dirty = {}
        /\ Top.emits = <<>>
        /\ Top.res.kind # "BridgeCallFailed" =>
              storage = Top.snap.storage /\ logs = Top.snap.logs

C12_Reverted ==
    Failing =>
        /\ storage' = Top.snap.storage
        /\ logs' = Top.snap.logs
        /\ sent' = Top.snap.sent

\* C12: an invocation that fails (EmptyContent, NotFound or RelayCallFailed)
\* has written nothing and emitted nothing itself, and when it returns the
\* store (contents, senders, next_id) and the event log are exactly as they
\* were before it began, whatever was done inside its relay call.
C12_AtomicFailure == []C12_NothingOfItsOwn /\ [][C12_Reverted]_vars

C12_Witness ==
    /\ Failing
    /\ Top.op = "bridge_message"
    /\ Top.rres.st = "AbiDecodingFailed"
    /\ storage.message_count > Top.snap.storage.message_count
    /\ Len(logs) > Len(Top.snap.logs)

\* The MessageSent events of a log, in order.
RECURSIVE SentEvents(_)
SentEvents(l) ==
    IF l = <<>> THEN <<>>
    ELSE IF l[Len(l)].kind = "MessageSent"
         THEN Append(SentEvents(SubSeq(l, 1, Len(l) - 1)), l[Len(l)])
         ELSE SentEvents(SubSeq(l, 1, Len(l) - 1))

\* C13: every successful send_message emits exactly one MessageSent event
\* with the assigned id, the caller and the submitted content, and a failed
\* one emits none; so in every store an invocation can observe the number of
\* MessageSent events is message_count() and the k-th one is
\* (k, senders[k], contents[k]).
C13_SentEvents ==
    /\ Done("send_message") =>
          IF Top.res.ok
          THEN /\ Len(Top.emits) = 1
               /\ Top.emits[1].kind = "MessageSent"
               /\ Top.emits[1].id = Top.res.num
               /\ Top.emits[1].sender = Top.sender
               /\ Top.emits[1].content = Top.content
               /\ logs[Len(logs)] = Top.emits[1]
          ELSE Top.emits = <<>>
    /\ Observable =>
          /\ Len(SentEvents(logs)) = storage.message_count
          /\ \A k \in 1..Len(SentEvents(logs)) :
                /\ SentEvents(logs)[k].id = k - 1
                /\ SentEvents(logs)[k].sender = storage.senders[k - 1]
                /\ SentEvents(logs)[k].content = get_string(storage.messages[k - 1])

C13_Witness ==
    /\ Depth = 0
    /\ Len(logs) = 3
    /\ logs[2].kind = "MessageBridged"
    /\ logs[3].kind = "MessageSent"
    /\ logs[3].id = 1
    /\ logs[3].content = <<233, 97>>
    /\ storage.message_count = 2

\* The send_message invocation in flight, if the top of the stack is one.
Sending == Depth > 0 /\ Top.op = "send_message"

\* C15 as stated: within a submit the order is read next_id, write
\* contents[id], write senders[id], then increment next_id, so that at no
\* step of send_message, as the invocation itself sees its state, is there an
\* id below next_id whose content or sender is not yet written.
C15_AsStated ==
    Sending =>
        /\ CntSlot \in Top.cache.dirty =>
              MsgSlot(Top.id) \in Top.cache.dirty /\ SndSlot(Top.id) \in Top.cache.dirty
        /\ \A k \in Keys :
              k < GetCount(Top.cache, storage) =>
                  /\ GetMsg(Top.cache, storage, k) # <<>>
                  /\ GetSnd(Top.cache, storage, k) # ZeroAddr

\* C15 (amended): within a successful submit the order is read next_id as id,
\* increment next_id by exactly 1, write contents[id], write senders[id]; all
\* three writes stay pending until the invocation returns, so the persistent
\* store never holds an id below next_id without its content and sender.
C15_Order ==
    /\ Sending =>
          /\ storage = Top.snap.storage
          /\ Top.pc \in {"sm_check", "sm_read", "sm_inc"} => Top.cache.dirty = {}
          /\ Top.pc \in {"sm_inc", "sm_msg", "sm_snd", "sm_log"} => Top.id = CountAtCall(Top)
          /\ Top.pc = "sm_msg" => Top.cache.dirty = {CntSlot}
          /\ Top.pc = "sm_snd" => Top.cache.dirty = {CntSlot, MsgSlot(Top.id)}
          /\ Top.pc = "sm_log" \/ (Top.pc = "done" /\ Top.res.ok) =>
                Top.cache.dirty = {CntSlot, MsgSlot(Top.id), SndSlot(Top.id)}
          /\ CntSlot \in Top.cache.dirty => Top.cache.val.message_count = Top.id + 1
    /\ \A k \in Keys :
          k < storage.message_count =>
              storage.messages[k] # <<>> /\ storage.senders[k] # ZeroAddr

C15_Witness ==
    /\ Sending
    /\ Top.pc = "sm_msg"
    /\ Top.id = 1
    /\ GetCount(Top.cache, storage) = 2
    /\ GetMsg(Top.cache, storage, 1) = <<>>
    /\ storage.message_count = 1

\* C16: in every bridge_message the existence check (a read of
\* message_count) and the read of the content both come before the relay
\* call, in that order, and once the call is issued the invocation reads
\* neither message_count nor messages nor senders again.
C16_ReadsBeforeCall ==
    \A i \in 1..Depth :
        stack[i].op = "bridge_message" =>
            /\ stack[i].pc = "bm_call" =>
                  stack[i].cache.reads = <<CntSlot, MsgSlot(stack[i].id)>>
            /\ stack[i].issued # <<>> =>
                  /\ stack[i].cache.reads = <<CntSlot, MsgSlot(stack[i].id)>>
                  /\ stack[i].pc \in {"relay", "bm_match", "done"}
            /\ stack[i].issued = <<>> =>
                  stack[i].pc \in {"bm_check", "bm_read", "bm_flush", "bm_encode",
                                   "bm_call", "done"}

C16_Witness ==
    /\ Done("bridge_message")
    /\ Top.res.ok
    /\ Top.id = 1
    /\ Top.cache.reads = <<CntSlot, MsgSlot(1)>>
    /\ Top.issued # <<>>

\* C17: a bridge_message invocation issues at most one relay call: exactly
\* one when id < message_count(), none otherwise, and none after the relay
\* has failed; no other operation issues any.
C17_OneRelayCall ==
    \A i \in 1..Depth :
        /\ Len(stack[i].issued) <= 1
        /\ stack[i].op # "bridge_message" => stack[i].issued = <<>>
        /\ stack[i].pc = "done" /\ stack[i].op = "bridge_message" =>
              Len(stack[i].issued) = IF stack[i].id < CountAtCall(stack[i]) THEN 1 ELSE 0
        /\ RelayFailed(stack[i]) =>
              Len(stack[i].issued) = 1 /\ stack[i].pc \in {"bm_match", "done"}

C17_Witness ==
    /\ Done("bridge_message")
    /\ Top.rres.st = "Revert"
    /\ Top.rres.data = <<7>>
    /\ Len(Top.issued) = 1
    /\ ~Top.res.ok

\* The slots a send_message that was assigned id may write.
OwnSlots(id) == {CntSlot, MsgSlot(id), SndSlot(id)}

C18_PendingWrites ==
    \A i \in 1..Depth :
        /\ stack[i].op # "send_message" => stack[i].cache.dirty = {}
        /\ stack[i].op = "send_message" =>
              /\ stack[i].cache.dirty \subseteq OwnSlots(stack[i].id)
              /\ stack[i].pc = "done" /\ stack[i].res.ok =>
                    /\ stack[i].cache.dirty = OwnSlots(stack[i].id)
                    /\ stack[i].id = CountAtCall(stack[i])
              /\ stack[i].pc = "done" /\ ~stack[i].res.ok =>
                    stack[i].cache.dirty = {}

C18_StoreSteps ==
    storage' # storage =>
        \/ /\ Done("send_message")
           /\ Top.res.ok
           /\ Top.id = storage.message_count
           /\ storage'.message_count = Top.id + 1
           /\ \A k \in Keys \ {Top.id} :
                 /\ storage'.messages[k] = storage.messages[k]
                 /\ storage'.senders[k] = storage.senders[k]
        \/ /\ At("relay")
           /\ storage' = Top.rsnap.storage
        \/ /\ Failing
           /\ storage' = Top.snap.storage

\* C18: the only operation whose own steps change contents, senders or next_id
\* is a successful send_message: the reads and bridge_message have no write
\* pending at any step, a send_message assigned id has pending writes only to
\* contents[id], senders[id] and next_id, and the store changes only when such
\* a send_message returns (every other entry as it was) or when a failure
\* puts an earlier store back.
C18_Frame == []C18_PendingWrites /\ [][C18_StoreSteps]_vars

C18_Witness ==
    /\ Done("send_message")
    /\ Top.res.ok
    /\ Top.id = 1
    /\ Top.cache.dirty = OwnSlots(1)
    /\ storage.message_count = 1
    /\ storage.senders[0] # ZeroAddr

\* C19: calls the relay makes back into the contract during
\* bridge_message(id) do not alter that invocation: its payload is the content
\* stored under id, before, during and after the re-entrant calls; on relay
\* success its MessageBridged event carries id and the ticket of its own
\* relay call; and each submission, re-entrant or not, is assigned the id
\* that follows the submissions in effect when it began, the count agreeing
\* with them once the outermost invocation has returned.
C19_Reentrancy ==
    /\ \A i \in 1..Depth :
          /\ stack[i].issued # <<>> =>
                /\ stack[i].issued[1].data =
                      as_bytes(get_string(storage.messages[stack[i].id]))
                /\ stack[i].issued[1].data =
                      as_bytes(get_string(stack[i].snap.storage.messages[stack[i].id]))
                /\ stack[i].pc = "done" /\ stack[i].res.ok =>
                      stack[i].emits =
                          <<MessageBridged(stack[i].id, stack[i].rres.ticket)>>
          /\ i < Depth =>
                /\ stack[i].op = "bridge_message"
                /\ stack[i].pc = "relay"
                /\ stack[i + 1].sender = ARBSYS_ADDR
          /\ stack[i].op = "send_message" /\ stack[i].pc = "done" /\ stack[i].res.ok =>
                /\ stack[i].id = Len(stack[i].snap.sent)
                /\ sent = Append(stack[i].snap.sent,
                                 [id |-> stack[i].id, sender |-> stack[i].sender,
                                  content |-> stack[i].content])
    /\ Depth = 0 => storage.message_count = Len(sent)

C19_Witness ==
    /\ Done("bridge_message")
    /\ Depth = 1
    /\ Top.res.ok
    /\ Top.id = 0
    /\ Len(sent) = Len(Top.snap.sent) + 1
    /\ sent[Len(sent)].sender = ARBSYS_ADDR
    /\ storage.message_count = 2

\* C20: in every reachable event log each MessageBridged event carrying id
\* has a MessageSent event carrying the same id before it, so every bridged
\* id is below message_count() and names a message that was stored.
C20_BridgedAfterSent ==
    \A i \in 1..Len(logs) :
        IsBridged(logs[i]) =>
            /\ \E j \in 1..(i - 1) :
                  /\ logs[j].kind = "MessageSent"
                  /\ logs[j].id = logs[i].id
            /\ logs[i].id < Len(sent)
            /\ Observable =>
                  /\ logs[i].id < storage.message_count
                  /\ storage.messages[logs[i].id] # <<>>

C20_Witness ==
    /\ Depth = 0
    /\ Len(logs) = 3
    /\ logs[1].kind = "MessageSent"
    /\ logs[2].kind = "MessageSent"
    /\ logs[2].id = 1
    /\ IsBridged(logs[3])
    /\ logs[3].id = 1

C14_Counter ==
    /\ call_count = made
    /\ Len(clogs) = made + (IF call.pc = "done" /\ call.op = "compute_hash" THEN 1 ELSE 0)
    /\ call.op = "none" <=> call = NoCall
    /\ call.op = "call_count" /\ call.pc = "done" => call.res = OkCount(made)
    /\ call.op = "compute_hash" /\ call.pc = "done" =>
          /\ call.res = OkB256(1 + (IF call.iterations > MaxRounds THEN MaxRounds
                                    ELSE call.iterations))
          /\ call.dirty
          /\ call.val = made + 1
          /\ clogs[Len(clogs)] = ComputeCompleted(call.iterations, call.res.val)

C14_Step ==
    /\ UNCHANGED <<storage, logs, stack, sent, failed>>
    /\ call_count' # call_count \/ made' # made =>
          /\ call.op = "compute_hash"
          /\ call.pc = "done"
          /\ call_count' = call_count + 1
          /\ made' = made + 1
    /\ call # NoCall /\ call' = NoCall /\ call.op = "compute_hash" =>
          /\ call.res.ok
          /\ call_count' = call_count + 1

\* C14: every compute_hash call, whatever its iterations (0 included),
\* returns Ok with the hash of the saturated number of rounds and raises
\* call_count by exactly 1 when it returns, so call_count and call_count()
\* equal the number of compute_hash calls made so far; no step of the compute
\* contract changes the messaging contract's store or events, and no result
\* depends on them.
C14_ComputeCalls == []C14_Counter /\ [][C14_Step]_vars

C14_Witness ==
    /\ call.op = "compute_hash"
    /\ call.pc = "done"
    /\ call.iterations = 0
    /\ call.res = OkB256(1)
    /\ made = 2
    /\ clogs[1].iterations = MaxRounds + 1
    /\ clogs[1].finalHash = MaxRounds + 1
    /\ storage.message_count = 1

====
